---- MODULE Spec2Model ----
(***************************************************************************)
(* Model of the Oracle driver of kine (pkg/drivers/oracle/oracle.go): the  *)
(* kine table with its identity column and unique index, the query         *)
(* templates the driver installs in the dialect, the error classifier and  *)
(* the schema installer.                                                   *)
(*                                                                         *)
(* Strings are sequences of character codes (ASCII), compared the way      *)
(* Oracle compares VARCHAR2 under binary collation.  SQL NULL for a number *)
(* is Null; the empty string is Oracle's NULL string.                      *)
(***************************************************************************)
EXTENDS Integers, Sequences, FiniteSets, TLC

VARIABLES
    table,      \* the rows of table kine
    nextId,     \* next value of the identity column kine.id
    wpc,        \* writer -> "idle" | "insert"
    wreq,       \* writer -> the row (without id) the writer is about to insert
    insLog,     \* every INSERT executed so far, in execution order, with its outcome
    snap,       \* id -> the table as it was when that id was the maximum id
    polls,      \* the after-cursor polls of the poll loop, in order
    objects,    \* the schema objects (table, indexes) that exist in the backend
    env,        \* the value of environment variable KINE_SCHEMA_MIGRATION
    npc,        \* where the running call of New is: "idle", "check", "schema", ...
    exists,     \* setup's local variable exists
    si,         \* setup: position in schema of the next statement
    mi,         \* setup: loop index i over schemaMigrations
    executed,   \* setup: the statements handed to db.Exec by the running call
    checkErr,   \* setup: the error of the table-existence query of the running call
    before,     \* the schema objects when the running call of New began
    runs,       \* the finished calls of New, in order, with what each returned
    classified, \* the last error handed to TranslateErr and what it returned
    tmpl,       \* a query template as New builds it, before q
    qout,       \* what q returned for tmpl, then for its own output
    pending,    \* writer -> the row of its open transaction: inserted, not committed
    page        \* a paginated list in progress: its arguments, cursor and rows so far

kvvars == <<table, nextId, wpc, wreq, insLog, snap, polls>>

dvars == <<objects, env, npc, exists, si, mi, executed, checkErr, before, runs, classified>>

xvars == <<tmpl, qout, pending, page>>

vars == <<kvvars, dvars, xvars>>

-----------------------------------------------------------------------------
(* Bounds of the model *)

MaxId == 3        \* identity values handed out
NumWriters == 2   \* concurrent writers
MaxPolls == 2     \* polls of the poll loop
MaxRuns == 2      \* calls of New against one backend

-----------------------------------------------------------------------------
(* Character codes and strings *)

\* SQL NULL in a numeric column or aggregate
Null == -1

Pct == 37         \* '%'
Und == 95         \* '_'
ChA == 97         \* 'a'
ChB == 98         \* 'b'

\* CHR(1) of the NVL(?, CHR(1)) start cursor
Chr1 == <<1>>

\* key names written by the writers; <<1>> is the one-character key CHR(1)
Names == {<<1>>, <<ChA>>, <<ChA, ChB>>}

\* LIKE patterns handed to the list and poll queries
Patterns == {<<Pct>>, <<ChA, Pct>>, <<ChA, Und>>, <<ChA>>}

\* the payloads the writers put
Payloads == {1}

NoValue == 0

Writers == 1 .. NumWriters

RECURSIVE StrLess(_, _)
\* a < b for VARCHAR2 values under binary comparison
StrLess(a, b) ==
    IF b = <<>> THEN FALSE
    ELSE IF a = <<>> THEN TRUE
    ELSE IF Head(a) # Head(b) THEN Head(a) < Head(b)
    ELSE StrLess(Tail(a), Tail(b))

RECURSIVE Like(_, _)
\* s LIKE p: '%' matches any run of characters, '_' exactly one
Like(s, p) ==
    IF p = <<>> THEN s = <<>>
    ELSE IF Head(p) = Pct
         THEN Like(s, Tail(p)) \/ (s # <<>> /\ Like(Tail(s), p))
    ELSE /\ s # <<>>
         /\ (Head(p) = Und \/ Head(p) = Head(s))
         /\ Like(Tail(s), Tail(p))

\* NVL(s, CHR(1)); an empty bind string is NULL in Oracle
Nvl(s) == IF s = <<>> THEN Chr1 ELSE s

\* MAX(): NULL over no rows
MaxOf(S) == IF S = {} THEN Null ELSE CHOOSE x \in S : \A y \in S : y <= x

RECURSIVE OrderByName(_)
\* ORDER BY lkv.thename ASC
OrderByName(S) ==
    IF S = {} THEN <<>>
    ELSE LET m == CHOOSE x \in S : \A y \in S : ~StrLess(y.kv.name, x.kv.name)
         IN  <<m>> \o OrderByName(S \ {m})

RECURSIVE OrderById(_)
\* ORDER BY kv.id ASC
OrderById(S) ==
    IF S = {} THEN <<>>
    ELSE LET m == CHOOSE x \in S : \A y \in S : x.kv.id <= y.kv.id
         IN  <<m>> \o OrderById(S \ {m})

-----------------------------------------------------------------------------
(* The query templates *)

\* name of the compaction sentinel row, 'compact_rev_key'
CompactRevKey == <<99, 111, 109, 112, 97, 99, 116, 95, 114, 101, 118, 95, 107, 101, 121>>

\* mkv.name LIKE ?  (a NULL name or pattern matches nothing)
NameLike(name, pat) == name # <<>> /\ pat # <<>> /\ Like(name, pat)

\* SELECT MAX(rkv.id) AS id FROM kine rkv
RevSQL(t) == MaxOf({rkv.id : rkv \in t})

\* SELECT MAX(crkv.prev_revision) FROM kine crkv WHERE crkv.name = 'compact_rev_key'
CompactRevSQL(t) ==
    MaxOf({crkv.prev_revision : crkv \in {x \in t : x.name = CompactRevKey}})

\* SELECT (revSQL), (compactRevSQL), columns: one result row for table row kv
Columns(t, kv) == [rev |-> RevSQL(t), compact |-> CompactRevSQL(t), kv |-> kv]

\* the table rows of a query result, in result order
Rows(res) == [i \in 1 .. Len(res) |-> res[i].kv]

\* the bind values of "kv.deleted = ?"
Dels == {0, 1}

\* listSQL with the rows satisfying the spliced predicate given as the set extra,
\* and the bind value del of "kv.deleted = ?"
ListSQL(t, pat, extra, del) ==
    LET elig  == {mkv \in t : NameLike(mkv.name, pat) /\ mkv \in extra}
        maxkv == {MaxOf({m.id : m \in {x \in elig : x.name = n}}) :
                      n \in {m.name : m \in elig}}
        lkv   == {Columns(t, kv) :
                      kv \in {r \in t : r.id \in maxkv /\ (r.deleted = 0 \/ r.deleted = del)}}
    IN  OrderByName(lkv)

\* listSQL with "AND mkv.name > NVL(?, CHR(1))"
GetCurrentSQL(t, pat, start, del) ==
    ListSQL(t, pat, {mkv \in t : StrLess(Nvl(start), mkv.name)}, del)

\* the revision-bounded list with its ceiling predicate left out (variant for C4)
ListRevisionStartNoCeiling(t, pat, rev, del) == ListSQL(t, pat, t, del)

\* listSQL with "AND mkv.id <= ?"
ListRevisionStartSQL(t, pat, rev, del) ==
    ListSQL(t, pat, {mkv \in t : mkv.id <= rev}, del)

\* the cursor comparison as "mkv.name >= ?" (variant for C19)
NameAtLeast(name, bind) == bind # <<>> /\ ~StrLess(name, bind)

\* mkv.name > ? for a bind value: an empty bind string is NULL, and a comparison
\* with NULL is not true
NameGreater(name, bind) == bind # <<>> /\ StrLess(bind, name)

\* get-revision-after with "mkv.id > ?" in place of the ceiling (variant for C13)
GetRevisionAfterFloor(t, pat, cursor, rev, del) ==
    ListSQL(t, pat, {mkv \in t : NameGreater(mkv.name, cursor) /\ mkv.id > rev}, del)

\* listSQL with "AND mkv.name > ? AND mkv.id <= ?"
GetRevisionAfterSQL(t, pat, cursor, rev, del) ==
    ListSQL(t, pat, {mkv \in t : NameGreater(mkv.name, cursor) /\ mkv.id <= rev}, del)

\* SELECT (revSQL), (SELECT COUNT(c.theid) FROM (listSQL with
\* "AND mkv.name > NVL(?, CHR(1))") c) FROM dual
CountCurrentSQL(t, pat, start, del) ==
    [rev   |-> RevSQL(t),
     count |-> Len(ListSQL(t, pat, {mkv \in t : StrLess(Nvl(start), mkv.name)}, del))]

\* SELECT (revSQL), (SELECT COUNT(c.theid) FROM (listSQL with
\* "AND mkv.name > NVL(?, CHR(1)) AND mkv.id <= ?") c) FROM dual
CountRevisionSQL(t, pat, start, rev, del) ==
    [rev   |-> RevSQL(t),
     count |-> Len(ListSQL(t, pat, {mkv \in t : /\ StrLess(Nvl(start), mkv.name)
                                                 /\ mkv.id <= rev}, del))]

\* the poll query with "kv.id >= ?" (variant for C6)
AfterSQLFromFloor(t, pat, floor) ==
    OrderById({Columns(t, kv) : kv \in {r \in t : NameLike(r.name, pat) /\ r.id >= floor}})

\* SELECT ... FROM kine kv WHERE kv.name LIKE ? AND kv.id > ? ORDER BY kv.id ASC
AfterSQL(t, pat, floor) ==
    OrderById({Columns(t, kv) : kv \in {r \in t : NameLike(r.name, pat) /\ r.id > floor}})

-----------------------------------------------------------------------------
(* Errors and the error classifier *)

\* a nil error
NilErr == [kind |-> "nil", code |-> 0, text |-> ""]

\* a *network.OracleError with its ErrCode; text names what raised it
OracleError(code, text) == [kind |-> "OracleError", code |-> code, text |-> text]

\* an error value of any other Go type
OtherError(text) == [kind |-> "other", code |-> 0, text |-> text]

\* server.ErrKeyExists, a sentinel error that wraps nothing
ErrKeyExists == [kind |-> "ErrKeyExists", code |-> 0, text |-> "key exists"]

\* ORA-00001, unique constraint violated, raised for every unique index of the table
OraUnique == 1

\* a classifier that does not look at ErrCode (variant for C8)
TranslateAnyOracleError(err) == IF err.kind = "OracleError" THEN ErrKeyExists ELSE err

\* dialect.TranslateErr
TranslateErr(err) ==
    IF err.kind = "OracleError" /\ err.code = OraUnique THEN ErrKeyExists ELSE err

-----------------------------------------------------------------------------
(* The table: identity column, primary key and unique index *)

\* an identity column that does not advance (variant for C3)
IdentityStuck(n) == n

\* id INTEGER GENERATED BY DEFAULT AS IDENTITY: the value after n
IdentityNext(n) == n + 1

\* CONSTRAINT kine_pk PRIMARY KEY (id)
PkViolation(t, id) == \E r \in t : r.id = id

\* the index on (name, prev_revision) created without UNIQUE (variant for C2)
NonUniqueIndex(t, name, prev) == FALSE

\* CREATE UNIQUE INDEX kine_name_prev_revision_uindex ON kine (name, prev_revision)
UniqueViolation(t, name, prev) ==
    \E r \in t : r.name = name /\ r.prev_revision = prev

\* the error the backend raises for inserting row r into t
InsertError(t, r) ==
    IF PkViolation(t, r.id) THEN OracleError(OraUnique, "KINE_PK")
    ELSE IF UniqueViolation(t, r.name, r.prev_revision)
         THEN OracleError(OraUnique, "KINE_NAME_PREV_REVISION_UINDEX")
    ELSE NilErr

-----------------------------------------------------------------------------
(* The writers of the log-structured engine *)

NoReq == [name |-> <<>>, created |-> 0, deleted |-> 0, create_revision |-> 0,
          prev_revision |-> 0, lease |-> 0, value |-> NoValue, old_value |-> NoValue]

\* the rows of t for one name
History(t, name) == {r \in t : r.name = name}

\* the id of the newest row for name, 0 when there is none
LatestId(t, name) == IF History(t, name) = {} THEN 0 ELSE MaxOf({r.id : r \in History(t, name)})

\* the newest row for name (only used when there is one)
Latest(t, name) == CHOOSE r \in History(t, name) : r.id = LatestId(t, name)

\* name has a newest row and it is not a tombstone
Live(t, name) == History(t, name) # {} /\ Latest(t, name).deleted = 0

\* a writer reads the newest row of a key and prepares a put of payload
ReadPut(w, name, payload) ==
    /\ wpc[w] = "idle"
    /\ wreq' = [wreq EXCEPT ![w] =
           [name            |-> name,
            created         |-> IF Live(table, name) THEN 0 ELSE 1,
            deleted         |-> 0,
            create_revision |-> IF Live(table, name)
                                THEN Latest(table, name).create_revision ELSE 0,
            prev_revision   |-> LatestId(table, name),
            lease           |-> 0,
            value           |-> payload,
            old_value       |-> IF Live(table, name)
                                THEN Latest(table, name).value ELSE NoValue]]
    /\ wpc' = [wpc EXCEPT ![w] = "insert"]
    /\ UNCHANGED <<table, nextId, insLog, snap, polls, dvars, xvars>>

\* a writer reads the newest row of a live key and prepares its tombstone
ReadDelete(w, name) ==
    /\ wpc[w] = "idle"
    /\ Live(table, name)
    /\ wreq' = [wreq EXCEPT ![w] =
           [name            |-> name,
            created         |-> 0,
            deleted         |-> 1,
            create_revision |-> Latest(table, name).create_revision,
            prev_revision   |-> LatestId(table, name),
            lease           |-> 0,
            value           |-> NoValue,
            old_value       |-> Latest(table, name).value]]
    /\ wpc' = [wpc EXCEPT ![w] = "insert"]
    /\ UNCHANGED <<table, nextId, insLog, snap, polls, dvars, xvars>>

\* the row a request becomes once the identity column has given it an id
RowOf(req, id) ==
    [id              |-> id,
     name            |-> req.name,
     created         |-> req.created,
     deleted         |-> req.deleted,
     create_revision |-> IF req.created = 1 THEN id ELSE req.create_revision,
     prev_revision   |-> req.prev_revision,
     lease           |-> req.lease,
     value           |-> req.value,
     old_value       |-> req.old_value]

\* the writer's INSERT: the identity column assigns the id, the constraints are
\* checked, and the backend's error goes through the error classifier
Insert(w) ==
    /\ wpc[w] = "insert"
    /\ nextId <= MaxId
    /\ LET row == RowOf(wreq[w], nextId)
           raw == InsertError(table, row)
       IN  /\ table' = IF raw = NilErr THEN table \cup {row} ELSE table
           /\ insLog' = Append(insLog, [name |-> row.name, prev |-> row.prev_revision,
                                        id |-> row.id, raw |-> raw,
                                        out |-> TranslateErr(raw)])
           /\ snap' = IF raw = NilErr
                      THEN [i \in DOMAIN snap \cup {row.id} |->
                               IF i = row.id THEN table' ELSE snap[i]]
                      ELSE snap
    /\ nextId' = IdentityNext(nextId)
    /\ wpc' = [wpc EXCEPT ![w] = "idle"]
    /\ wreq' = [wreq EXCEPT ![w] = NoReq]
    /\ UNCHANGED <<polls, dvars, xvars>>

-----------------------------------------------------------------------------
(* The poll loop: after-cursor polls with an advancing floor *)

\* the floor of the next poll: the largest id the last poll returned
PollFloor ==
    IF polls = <<>> THEN 0
    ELSE LET last == polls[Len(polls)]
         IN  IF last.ids = <<>> THEN last.floor ELSE last.ids[Len(last.ids)]

\* the pattern the poll loop polls with
PollPattern == <<Pct>>

Poll ==
    /\ Len(polls) < MaxPolls
    /\ LET rows == AfterSQL(table, PollPattern, PollFloor)
       IN  polls' = Append(polls, [floor |-> PollFloor,
                                   ids   |-> [i \in 1 .. Len(rows) |-> rows[i].kv.id]])
    /\ UNCHANGED <<table, nextId, wpc, wreq, insLog, snap, dvars, xvars>>

-----------------------------------------------------------------------------
(* Writers whose transactions stay open after the insert *)

\* no row: what pending holds for a writer without an open transaction
NoRow == RowOf(NoReq, 0)

\* the rows other writers have inserted and not yet committed
PendingOfOthers(w) == {pending[v] : v \in {u \in Writers : u # w /\ pending[u] # NoRow}}

\* the writer's INSERT inside its transaction: the identity column hands out the
\* id at once; the row is seen by others only after the commit.  An insert whose
\* (name, prev_revision) another open transaction holds waits for that
\* transaction.  The default isolation level lets every read see committed rows
\* only.
InsertTxn(w) ==
    /\ wpc[w] = "insert"
    /\ nextId <= MaxId
    /\ ~UniqueViolation(PendingOfOthers(w), wreq[w].name, wreq[w].prev_revision)
    /\ LET row == RowOf(wreq[w], nextId)
           raw == InsertError(table, row)
       IN  IF raw = NilErr
           THEN /\ pending' = [pending EXCEPT ![w] = row]
                /\ wpc' = [wpc EXCEPT ![w] = "commit"]
                /\ UNCHANGED insLog
           ELSE /\ insLog' = Append(insLog, [name |-> row.name, prev |-> row.prev_revision,
                                             id |-> row.id, raw |-> raw,
                                             out |-> TranslateErr(raw)])
                /\ wpc' = [wpc EXCEPT ![w] = "idle"]
                /\ UNCHANGED pending
    /\ nextId' = IdentityNext(nextId)
    /\ wreq' = [wreq EXCEPT ![w] = NoReq]
    /\ UNCHANGED <<table, snap, polls, tmpl, qout, page, dvars>>

\* the writer's COMMIT: its row becomes visible
Commit(w) ==
    /\ wpc[w] = "commit"
    /\ table' = table \cup {pending[w]}
    /\ insLog' = Append(insLog, [name |-> pending[w].name, prev |-> pending[w].prev_revision,
                                 id |-> pending[w].id, raw |-> NilErr, out |-> NilErr])
    /\ pending' = [pending EXCEPT ![w] = NoRow]
    /\ wpc' = [wpc EXCEPT ![w] = "idle"]
    /\ UNCHANGED <<nextId, wreq, snap, polls, tmpl, qout, page, dvars>>

-----------------------------------------------------------------------------
(* Forward pagination of a list at a fixed revision *)

\* no paginated list in progress; rev is the table's revision at the first page
NoPage == [state |-> "idle", R |-> 0, pat |-> <<>>, del |-> 0, n |-> 0, rev |-> 0,
           cursor |-> <<>>, rows |-> <<>>, pages |-> 0]

\* largest row cap of a page
MaxRows == 2

\* the patterns the pager lists with
PagePatterns == {<<Pct>>, <<ChA, Pct>>}

\* LimitSQL, "%s FETCH FIRST %d ROWS ONLY": the first n rows of the ordered result
LimitSQL(res, n) == SubSeq(res, 1, IF Len(res) < n THEN Len(res) ELSE n)

\* the pager after a page of rows res: more pages follow a full page
AfterPage(pg, res) ==
    [pg EXCEPT !.state  = IF Len(res) < pg.n THEN "done" ELSE "more",
               !.cursor = IF res = <<>> THEN pg.cursor ELSE res[Len(res)].kv.name,
               !.rows   = pg.rows \o Rows(res),
               !.pages  = pg.pages + 1]

\* the first page: the revision-bounded list at a revision R the table has
\* reached, capped to n rows
PageStart(R, pat, del, n) ==
    /\ page.state = "idle"
    /\ R <= RevSQL(table)
    /\ page' = AfterPage([NoPage EXCEPT !.R = R, !.pat = pat, !.del = del, !.n = n,
                                        !.rev = RevSQL(table)],
                         LimitSQL(ListRevisionStartSQL(table, pat, R, del), n))
    /\ UNCHANGED <<tmpl, qout, pending, kvvars, dvars>>

\* a further page: get-revision-after with the cursor at the last name returned
PageNext ==
    /\ page.state = "more"
    /\ page' = AfterPage(page, LimitSQL(GetRevisionAfterSQL(table, page.pat, page.cursor,
                                                            page.R, page.del), page.n))
    /\ UNCHANGED <<tmpl, qout, pending, kvvars, dvars>>

-----------------------------------------------------------------------------
(* Compaction: the watermark sentinel and the sweep *)

\* a caller reads the watermark and prepares a sentinel row that raises it to W,
\* a revision the table has reached
ReadWatermark(w, W) ==
    /\ wpc[w] = "idle"
    /\ W > CompactRevSQL(table)
    /\ W <= RevSQL(table)
    /\ wreq' = [wreq EXCEPT ![w] = [NoReq EXCEPT !.name = CompactRevKey,
                                                 !.prev_revision = W]]
    /\ wpc' = [wpc EXCEPT ![w] = "insert"]
    /\ UNCHANGED <<table, nextId, insLog, snap, polls, dvars, xvars>>

\* a record the sweep may remove: a version of a key that a newer version of the
\* same key has superseded and that is older than the watermark
Sweepable(t, r) ==
    /\ r.name # CompactRevKey
    /\ \E x \in t : x.name = r.name /\ x.id > r.id
    /\ r.id < CompactRevSQL(t)

\* delete-by-id as "WHERE kv.id >= ?" (variant for C18)
DeleteFromId(t, id) == {kv \in t : ~(kv.id >= id)}

\* DELETE FROM kine kv WHERE kv.id = ?
DeleteSQL(t, id) == {kv \in t : ~(kv.id = id)}

\* the compaction sweep removes one record with delete-by-id
Sweep(id) ==
    /\ \E r \in table : r.id = id /\ Sweepable(table, r)
    /\ table' = DeleteSQL(table, id)
    /\ UNCHANGED <<nextId, wpc, wreq, insLog, snap, polls, dvars, xvars>>

-----------------------------------------------------------------------------
(* The schema installer and New *)

\* the statements of schema, each named by the object it creates
Schema == <<"KINE", "KINE_NAME_INDEX", "KINE_NAME_ID_INDEX", "KINE_ID_DELETED_INDEX",
            "KINE_PREV_REVISION_INDEX", "KINE_NAME_PREV_REVISION_UINDEX">>

AllObjects == {Schema[i] : i \in DOMAIN Schema}

\* the statements of schemaMigrations; both are empty
SchemaMigrations == <<"", "">>

\* sql.ErrNoRows
ErrNoRows == OtherError("sql: no rows in result set")

\* errors a backend raises on its own account for any statement: a timeout, a
\* lost connection
Faults == {OracleError(12170, "TNS:connect timeout occurred"),
           OtherError("driver: bad connection")}

\* the decimal digits of 2^64 - 1 (math.MaxUint64), of 2^64 and of 2^63 - 1
\* (math.MaxInt64), as character codes
MaxUint64Text == <<49, 56, 52, 52, 54, 55, 52, 52, 48, 55, 51, 55, 48, 57, 53, 53, 49, 54, 49, 53>>

TwoTo64Text == <<49, 56, 52, 52, 54, 55, 52, 52, 48, 55, 51, 55, 48, 57, 53, 53, 49, 54, 49, 54>>

MaxInt64Text == <<57, 50, 50, 51, 51, 55, 50, 48, 51, 54, 56, 53, 52, 55, 55, 53, 56, 48, 55>>

\* the decimal digits of 2^63, the first value whose int() is negative
TwoTo63Text == <<57, 50, 50, 51, 51, 55, 50, 48, 51, 54, 56, 53, 52, 55, 55, 53, 56, 48, 56>>

\* values of KINE_SCHEMA_MIGRATION: unset, "0", "1", "2", "3", "x", 2^63, 2^64 - 1,
\* 2^64, and 2^64 followed by "x"
EnvValues == {<<>>, <<48>>, <<49>>, <<50>>, <<51>>, <<120>>, TwoTo63Text, MaxUint64Text,
              TwoTo64Text, TwoTo64Text \o <<120>>}

RECURSIVE ParseDigits(_, _)
\* the digits of s read in base 10 onto acc; Null when a character is no digit
ParseDigits(s, acc) ==
    IF s = <<>> THEN acc
    ELSE IF Head(s) < 48 \/ Head(s) > 57 THEN Null
    ELSE ParseDigits(Tail(s), acc * 10 + (Head(s) - 48))

\* every character of s is a decimal digit
AllDigits(s) == \A i \in DOMAIN s : s[i] >= 48 /\ s[i] <= 57

RECURSIVE StripZeros(_)
\* a digit string without its leading zeros
StripZeros(s) == IF s # <<>> /\ Head(s) = 48 THEN StripZeros(Tail(s)) ELSE s

\* a <= b for digit strings without leading zeros
DecLeq(a, b) == Len(a) < Len(b) \/ (Len(a) = Len(b) /\ (a = b \/ StrLess(a, b)))

\* digit strings up to this length are read as numbers; longer ones are compared
\* as texts with the limits of uint64 and int64
ExactDigits == 9

\* stands for an int above every list position
BigInt == 1000000000

RECURSIVE DigitPrefix(_)
\* the digits a text starts with, up to its first character that is no digit
DigitPrefix(s) ==
    IF s = <<>> \/ Head(s) < 48 \/ Head(s) > 57 THEN <<>>
    ELSE <<Head(s)>> \o DigitPrefix(Tail(s))

\* int(schemaVersion) for schemaVersion, _ := strconv.ParseUint(os.Getenv(...), 10, 64).
\* ParseUint reads the text character by character.  At the digit that takes the
\* value past 2^64 - 1 it returns MaxUint64 with a range error, before it looks
\* at any later character; at a character that is no digit, and for the empty
\* text, it returns 0 with a syntax error.  The error is dropped.  int() of a
\* value from 2^63 on is negative (MaxUint64 gives -1; -1 stands for the others).
SchemaVersion(s) ==
    IF s = <<>> THEN 0
    ELSE LET d == StripZeros(DigitPrefix(s))
         IN  IF ~DecLeq(d, MaxUint64Text) THEN -1
             ELSE IF ~AllDigits(s) THEN 0
             ELSE IF Len(d) <= ExactDigits THEN ParseDigits(d, 0)
             ELSE IF DecLeq(d, MaxInt64Text) THEN BigInt
             ELSE -1

\* the error of db.Exec(schema[i]) in a backend holding the objects objs
ExecError(objs, i) ==
    IF Schema[i] \in objs
    THEN OracleError(955, "name is already used by an existing object")
    ELSE IF i > 1 /\ Schema[1] \notin objs
         THEN OracleError(942, "table or view does not exist")
    ELSE NilErr

\* "if _, err := db.Exec(stmt); err != nil { return err }"
ExecFailed(err) == err # NilErr

\* the existence query asking USER_TABLES for 'kine' in lower case (variant for C7)
TableExistsLowerCase(f, objs) == f = NilErr /\ "kine" \in objs

\* the result of Scan(&exists) on the table-existence query that met error f
TableExists(f, objs) == f = NilErr /\ Schema[1] \in objs

\* what a finished call of New leaves in runs
Run(ranSetup, execd, err, migrateErr, objs) ==
    [ranSetup   |-> ranSetup,      \* setup was called
     checkErr   |-> IF ranSetup THEN checkErr ELSE NilErr,
     executed   |-> execd,         \* the statements handed to db.Exec, each with its error
     migrateErr |-> migrateErr,    \* an error met inside dialect.Migrate
     err        |-> err,           \* the error New returned
     backend    |-> err = NilErr,  \* New returned a backend
     before     |-> before,
     after      |-> objs]

\* New up to the call of setup: generic.Open, then the dialect is filled in
NewOpen ==
    /\ npc = "idle"
    /\ Len(runs) < MaxRuns
    /\ before' = objects
    /\ exists' = FALSE
    /\ si' = 1
    /\ mi' = 0
    /\ executed' = <<>>
    /\ checkErr' = NilErr
    /\ \E f \in Faults \cup {NilErr} :
          IF f # NilErr
          THEN /\ runs' = Append(runs, [Run(FALSE, <<>>, f, NilErr, objects)
                                            EXCEPT !.before = objects])
               /\ npc' = "idle"
          ELSE /\ runs' = runs
               /\ npc' = "check"
    /\ UNCHANGED <<objects, env, classified, kvvars, xvars>>

\* setup: the table-existence query and what becomes of its error
SetupCheck ==
    /\ npc = "check"
    /\ \E f \in Faults \cup {NilErr} :
          /\ checkErr' = IF f # NilErr THEN f
                         ELSE IF Schema[1] \in objects THEN NilErr ELSE ErrNoRows
          /\ exists' = TableExists(f, objects)
    /\ npc' = IF exists' THEN "migrate" ELSE "schema"
    /\ UNCHANGED <<objects, env, si, mi, executed, before, runs, classified, kvvars, xvars>>

\* setup: one pass of the loop over schema
SetupSchema ==
    /\ npc = "schema"
    /\ \E f \in Faults \cup {NilErr} :
          LET err == IF f # NilErr THEN f ELSE ExecError(objects, si)
          IN  /\ executed' = Append(executed, [stmt |-> Schema[si], err |-> err])
              /\ IF ExecFailed(err)
                 THEN /\ runs' = Append(runs, Run(TRUE, executed', err, NilErr, objects))
                      /\ npc' = "idle"
                      /\ UNCHANGED <<objects, si>>
                 ELSE /\ objects' = IF err = NilErr THEN objects \cup {Schema[si]}
                                                   ELSE objects
                      /\ si' = si + 1
                      /\ npc' = IF si = Len(Schema) THEN "migrate" ELSE "schema"
                      /\ runs' = runs
    /\ UNCHANGED <<env, exists, mi, checkErr, before, classified, kvvars, xvars>>

\* the migration loop without its test for an empty statement (variant for C12)
SkipNothing(stmt) == FALSE

\* "if stmt == "" { continue }"
SkipMigration(stmt) == stmt = ""

\* setup: one pass of the loop over schemaMigrations, or its end and setup's return
SetupMigrations ==
    /\ npc = "migrate"
    /\ IF mi >= Len(SchemaMigrations) \/ mi >= SchemaVersion(env)
       THEN /\ npc' = "Migrate"
            /\ UNCHANGED <<objects, mi, executed, runs>>
       ELSE IF SkipMigration(SchemaMigrations[mi + 1])
       THEN /\ mi' = mi + 1
            /\ UNCHANGED <<objects, npc, executed, runs>>
       ELSE /\ \E f \in Faults \cup {NilErr} :
                  /\ executed' = Append(executed, [stmt |-> SchemaMigrations[mi + 1],
                                                   err  |-> f])
                  /\ IF ExecFailed(f)
                     THEN /\ runs' = Append(runs, Run(TRUE, executed', f, NilErr, objects))
                          /\ npc' = "idle"
                          /\ mi' = mi
                     ELSE /\ mi' = mi + 1
                          /\ UNCHANGED <<npc, runs>>
            /\ UNCHANGED objects
    /\ UNCHANGED <<env, exists, si, checkErr, before, classified, kvvars, xvars>>

\* New after setup returned nil: dialect.Migrate, whose outcome New does not
\* receive, and the return of the backend
NewMigrate ==
    /\ npc = "Migrate"
    /\ \E f \in Faults \cup {NilErr} :
          runs' = Append(runs, Run(TRUE, executed, NilErr, f, objects))
    /\ npc' = "idle"
    /\ UNCHANGED <<objects, env, exists, si, mi, executed, checkErr, before, classified,
                   kvvars, xvars>>

\* the errors handed to the error classifier
ErrorValues ==
    {NilErr,
     OracleError(OraUnique, "KINE_NAME_PREV_REVISION_UINDEX"),
     OracleError(OraUnique, "KINE_PK"),
     OracleError(900, "invalid SQL statement"),
     OracleError(12170, "TNS:connect timeout occurred"),
     OtherError("driver: bad connection"),
     OtherError("context deadline exceeded")}

\* the engine hands a backend error to dialect.TranslateErr
Classify(e) ==
    /\ classified' = [raw |-> e, out |-> TranslateErr(e)]
    /\ UNCHANGED <<objects, env, npc, exists, si, mi, executed, checkErr, before, runs,
                   kvvars, xvars>>

-----------------------------------------------------------------------------
(* The placeholder translator q and the templates New hands to it *)

\* A template text is a sequence of pieces: the piece "?" is one generic marker,
\* ":" and the ten digits are single characters, and every other piece is a run
\* of SQL text that holds no '?' and no ':'.

\* the n-th decimal digit character
Digits == <<"0", "1", "2", "3", "4", "5", "6", "7", "8", "9">>

RECURSIVE Itoa(_)
\* strconv.Itoa(n) for n >= 0
Itoa(n) == IF n < 10 THEN <<Digits[n + 1]>> ELSE Itoa(n \div 10) \o <<Digits[(n % 10) + 1]>>

\* a counter that is set to 1 at every match instead of incremented (variant for C11)
CountFromOneEachTime(n) == 1

\* n++ in the replacement closure of q
Increment(n) == n + 1

RECURSIVE ReplaceAllStringFunc(_, _)
\* regex.ReplaceAllStringFunc(sql, func) for the regexp \? : the matches are taken
\* left to right, n is the closure's counter before the next match
ReplaceAllStringFunc(sql, n) ==
    IF sql = <<>> THEN <<>>
    ELSE IF Head(sql) = "?"
         THEN <<":">> \o Itoa(Increment(n)) \o ReplaceAllStringFunc(Tail(sql), Increment(n))
    ELSE <<Head(sql)>> \o ReplaceAllStringFunc(Tail(sql), n)

\* func q(sql string) string
Q(sql) == ReplaceAllStringFunc(sql, 0)

\* fmt.Sprintf(listSQL, pred): the list skeleton with a predicate spliced in
ListSQLText(pred) ==
    <<"SELECT * FROM ( SELECT (revSQL), (compactRevSQL), columns FROM kine kv JOIN ( SELECT MAX(mkv.id) AS id FROM kine mkv WHERE mkv.name LIKE ",
      "?", " ">> \o pred \o
    <<" GROUP BY mkv.name) maxkv ON maxkv.id = kv.id WHERE kv.deleted = 0 OR kv.deleted = ",
      "?", " ) lkv ORDER BY lkv.thename ASC">>

\* the count query around a list query
CountText(list) ==
    <<"SELECT (revSQL), (SELECT COUNT(c.theid) FROM ( ">> \o list \o <<" ) c) FROM dual">>

\* the spliced predicates of New
PredCurrent == <<"AND mkv.name > NVL(", "?", ", CHR(1))">>

PredRevisionStart == <<"AND mkv.id <= ", "?">>

PredRevisionAfter == <<"AND mkv.name > ", "?", " AND mkv.id <= ", "?">>

PredCountRevision == <<"AND mkv.name > NVL(", "?", ", CHR(1)) AND mkv.id <= ", "?">>

\* the texts New hands to q, in the order of New
GetRevisionText == <<"SELECT 0, 0, columns FROM kine kv WHERE kv.id = ", "?">>

GetCurrentText == ListSQLText(PredCurrent)

ListRevisionStartText == ListSQLText(PredRevisionStart)

GetRevisionAfterText == ListSQLText(PredRevisionAfter)

CountCurrentText == CountText(ListSQLText(PredCurrent))

CountRevisionText == CountText(ListSQLText(PredCountRevision))

AfterText ==
    <<"SELECT (revSQL), (compactRevSQL), columns FROM kine kv WHERE kv.name LIKE ", "?",
      " AND kv.id > ", "?", " ORDER BY kv.id ASC">>

DeleteText == <<"DELETE FROM kine kv WHERE kv.id = ", "?">>

DialectTexts ==
    {GetRevisionText, GetCurrentText, ListRevisionStartText, GetRevisionAfterText,
     CountCurrentText, CountRevisionText, AfterText, DeleteText}

\* the list skeleton used four times in one text: fifteen markers
UnionText ==
    ListRevisionStartText \o <<" UNION ALL ">> \o GetRevisionAfterText
        \o <<" UNION ALL ">> \o CountRevisionText \o <<" UNION ALL ">> \o CountRevisionText

\* longest generated template
MaxLen == 4

\* the pieces of the generated templates
QAlphabet == {"?", ", ", "x"}

\* every text of at most MaxLen pieces over QAlphabet: "?, ?, ?" is one of them
ShortTexts == UNION {[1 .. n -> QAlphabet] : n \in 0 .. MaxLen}

\* the templates q is applied to
Templates == DialectTexts \cup {UnionText} \cup ShortTexts

\* New applies q to a template
Translate ==
    /\ qout = <<>>
    /\ qout' = <<Q(tmpl)>>
    /\ UNCHANGED <<tmpl, pending, page, kvvars, dvars>>

\* q applied to what q returned
TranslateAgain ==
    /\ Len(qout) = 1
    /\ qout' = Append(qout, Q(qout[1]))
    /\ UNCHANGED <<tmpl, pending, page, kvvars, dvars>>

-----------------------------------------------------------------------------
(* Specifications *)


\* the translator, the transactions and the pager at rest
XInit ==
    /\ tmpl = <<>>
    /\ qout = <<>>
    /\ pending = [w \in Writers |-> NoRow]
    /\ page = NoPage

KVInit ==
    /\ table = {}
    /\ nextId = 1
    /\ wpc = [w \in Writers |-> "idle"]
    /\ wreq = [w \in Writers |-> NoReq]
    /\ insLog = <<>>
    /\ snap = <<>>
    /\ polls = <<>>

DriverInit ==
    /\ objects \in {{}, AllObjects}
    /\ env \in EnvValues
    /\ npc = "idle"
    /\ exists = FALSE
    /\ si = 1
    /\ mi = 0
    /\ executed = <<>>
    /\ checkErr = NilErr
    /\ before = {}
    /\ runs = <<>>
    /\ classified = [raw |-> NilErr, out |-> NilErr]

\* the table exists, New has returned the backend, the engine is at work
Init ==
    /\ KVInit
    /\ XInit
    /\ objects = AllObjects
    /\ env = <<>>
    /\ npc = "idle"
    /\ exists = TRUE
    /\ si = 1
    /\ mi = 0
    /\ executed = <<>>
    /\ checkErr = NilErr
    /\ before = AllObjects
    /\ runs = <<>>
    /\ classified = [raw |-> NilErr, out |-> NilErr]

\* two concurrent writers on the table
Next ==
    \/ \E w \in {1, 2}, name \in Names, payload \in Payloads : ReadPut(w, name, payload)
    \/ \E w \in {1, 2}, name \in Names : ReadDelete(w, name)
    \/ \E w \in {1, 2} : Insert(w)

Spec == Init /\ [][Next]_vars

\* NumWriters concurrent writers on the table
NextRace ==
    \/ \E w \in Writers, name \in Names, payload \in Payloads : ReadPut(w, name, payload)
    \/ \E w \in Writers, name \in Names : ReadDelete(w, name)
    \/ \E w \in Writers : Insert(w)

SpecRace == Init /\ [][NextRace]_vars

\* the poll loop running beside one writer
NextPoll ==
    \/ \E name \in Names, payload \in Payloads : ReadPut(1, name, payload)
    \/ \E name \in Names : ReadDelete(1, name)
    \/ Insert(1)
    \/ Poll

SpecPoll == Init /\ [][NextPoll]_vars

\* the driver: calls of New against one backend, and the error classifier
InitDriver == KVInit /\ DriverInit /\ XInit

NextDriver ==
    \/ NewOpen
    \/ SetupCheck
    \/ SetupSchema
    \/ SetupMigrations
    \/ NewMigrate
    \/ \E e \in ErrorValues : Classify(e)

SpecDriver == InitDriver /\ [][NextDriver]_vars

\* two callers that put, delete and advance the watermark, and the sweep
NextCompact ==
    \/ \E w \in {1, 2}, name \in Names, payload \in Payloads : ReadPut(w, name, payload)
    \/ \E w \in {1, 2}, name \in Names : ReadDelete(w, name)
    \/ \E w \in {1, 2}, W \in 1 .. MaxId : ReadWatermark(w, W)
    \/ \E w \in {1, 2} : Insert(w)
    \/ \E id \in 1 .. MaxId : Sweep(id)

SpecCompact == Init /\ [][NextCompact]_vars

\* the payloads of the puts of one caller that writes key after key
PutPayloads == {1, 2}

\* one caller putting keys, one put after the other, on an empty table
NextPut ==
    \/ \E name \in Names, payload \in PutPayloads : ReadPut(1, name, payload)
    \/ Insert(1)

SpecPut == Init /\ [][NextPut]_vars

\* writers with open transactions beside the poll loop
NextTxn ==
    \/ \E w \in Writers, name \in Names, payload \in Payloads : ReadPut(w, name, payload)
    \/ \E w \in Writers : InsertTxn(w)
    \/ \E w \in Writers : Commit(w)
    \/ Poll

SpecTxn == Init /\ [][NextTxn]_vars

\* a paginated list at a fixed revision while one caller keeps writing
NextPage ==
    \/ \E name \in Names, payload \in Payloads : ReadPut(1, name, payload)
    \/ \E name \in Names : ReadDelete(1, name)
    \/ Insert(1)
    \/ \E R \in 1 .. MaxId, pat \in PagePatterns, del \in Dels, n \in 1 .. MaxRows :
           PageStart(R, pat, del, n)
    \/ PageNext

SpecPage == Init /\ [][NextPage]_vars

\* New building the dialect: q applied to a template, and to its own output
InitQ ==
    /\ KVInit
    /\ DriverInit
    /\ tmpl \in Templates
    /\ qout = <<>>
    /\ pending = [w \in Writers |-> NoRow]
    /\ page = NoPage

NextQ ==
    \/ Translate
    \/ TranslateAgain

SpecQ == InitQ /\ [][NextQ]_vars

-----------------------------------------------------------------------------
(* Properties of the list queries *)

\* the names that have a row in t
NamesIn(t) == {r.name : r \in t}

\* C1, as the specification states it: the current-state list (no start cursor)
\* returns exactly one row for every name in the table that matches the pattern,
\* and that row has the largest id among the name's rows that are not deleted
\* (or are in the requested deleted state).
C1_OneRowPerMatchingName ==
    \A pat \in Patterns, del \in Dels :
        LET res == Rows(GetCurrentSQL(table, pat, <<>>, del))
        IN  \A n \in {m \in NamesIn(table) : NameLike(m, pat)} :
                /\ Cardinality({i \in DOMAIN res : res[i].name = n}) = 1
                /\ \A i \in DOMAIN res :
                       res[i].name = n =>
                           res[i].id = MaxOf({r.id : r \in {x \in History(table, n) :
                                                  x.deleted = 0 \/ x.deleted = del}})

\* C4: the revision-bounded list with ceiling R returns no row with id > R.
C4_NoRowAboveCeiling ==
    \A pat \in Patterns, R \in 0 .. MaxId, del \in Dels :
        LET res == Rows(ListRevisionStartSQL(table, pat, R, del))
        IN  \A i \in DOMAIN res : res[i].id <= R

\* C4 witness: a key has a row above the ceiling and the revision-bounded list
\* returns an older row of that key.
C4_Witness ==
    \E R \in 1 .. MaxId :
        LET res == Rows(ListRevisionStartSQL(table, <<Pct>>, R, 0))
        IN  \E i \in DOMAIN res : \E r \in table : r.id > R /\ r.name = res[i].name

\* C5: for every R that was the maximum id at some time, the record rows of the
\* revision-bounded list with ceiling R equal the record rows the current-state
\* list returned on the table as it was when R was the maximum id.
C5_SnapshotEquivalence ==
    \A R \in DOMAIN snap, pat \in Patterns, del \in Dels :
        Rows(ListRevisionStartSQL(table, pat, R, del))
            = Rows(GetCurrentSQL(snap[R], pat, <<>>, del))

-----------------------------------------------------------------------------
(* Properties of the writers *)

\* the executed inserts that carried the same (name, prev_revision) as insert i
SamePair(i) ==
    {j \in DOMAIN insLog : insLog[j].name = insLog[i].name /\ insLog[j].prev = insLog[i].prev}

\* C2: of the inserts that carry the same (name, prev_revision) exactly one
\* succeeds and every other one ends with ErrKeyExists; no two rows of the table
\* share a (name, prev_revision).
C2_OneInsertWins ==
    /\ \A r1, r2 \in table :
           (r1.name = r2.name /\ r1.prev_revision = r2.prev_revision) => r1 = r2
    /\ \A i \in DOMAIN insLog :
           /\ Cardinality({j \in SamePair(i) : insLog[j].raw = NilErr}) = 1
           /\ \A j \in SamePair(i) : insLog[j].raw # NilErr => insLog[j].out = ErrKeyExists
           /\ insLog[i].raw = NilErr => \E r \in table : r.id = insLog[i].id

\* C2 witness: two writers read the same newest row of a key, both inserted, one
\* won and the other got ErrKeyExists.
C2_Witness ==
    \E i, j \in DOMAIN insLog :
        /\ i < j
        /\ j \in SamePair(i)
        /\ insLog[i].prev # 0
        /\ insLog[i].raw = NilErr
        /\ insLog[j].out = ErrKeyExists

\* C3: ids grow strictly from each write to the next, over all keys, and each
\* row's prev_revision is the id of the row that precedes it for its name (0 for
\* the first).
C3_VersionChain ==
    /\ \A i, j \in DOMAIN insLog : i < j => insLog[i].id < insLog[j].id
    /\ \A r \in table :
           LET older == {x.id : x \in {y \in History(table, r.name) : y.id < r.id}}
           IN  r.prev_revision = IF older = {} THEN 0 ELSE MaxOf(older)

\* C3 witness: a key was put three times, with a lost race in between.
C3_Witness ==
    \E r \in table :
        /\ r.prev_revision # 0
        /\ \E x \in table : x.id = r.prev_revision /\ x.name = r.name
        /\ \E i \in DOMAIN insLog : insLog[i].raw # NilErr /\ insLog[i].id < r.id

-----------------------------------------------------------------------------
(* Properties of the after-cursor poll *)

\* C6: the after-cursor poll with pattern P and floor F returns exactly the rows
\* that match P and have id > F, in ascending id order; the next poll, with the
\* floor moved to the largest id returned, returns no row at or below that floor.
C6_PollAboveFloor ==
    /\ \A pat \in Patterns, F \in 0 .. MaxId :
           LET res == Rows(AfterSQL(table, pat, F))
           IN  /\ {res[i] : i \in DOMAIN res}
                      = {r \in table : NameLike(r.name, pat) /\ r.id > F}
               /\ \A i, j \in DOMAIN res : i < j => res[i].id < res[j].id
    /\ \A k \in DOMAIN polls :
           /\ \A i \in DOMAIN polls[k].ids : polls[k].ids[i] > polls[k].floor
           /\ \A h \in 1 .. k - 1 :
                  \A i \in DOMAIN polls[k].ids, j \in DOMAIN polls[h].ids :
                      /\ polls[h].ids[j] <= polls[k].floor
                      /\ polls[k].ids[i] # polls[h].ids[j]

\* C6 witness: two polls in a row both returned rows.
C6_Witness ==
    /\ Len(polls) = 2
    /\ polls[1].ids # <<>>
    /\ polls[2].ids # <<>>
    /\ polls[2].floor = polls[1].ids[Len(polls[1].ids)]

-----------------------------------------------------------------------------
(* Properties of the schema installer, New and the error classifier *)

\* the finished calls of New and the running one's statements so far
ExecLogs == {runs[k].executed : k \in DOMAIN runs} \cup {executed}

\* the error of the last statement of an execution log, nil when there is none
LastErr(log) == IF log = <<>> THEN NilErr ELSE log[Len(log)].err

\* C7: when a call of setup succeeded and setup is called again on the same
\* backend with the same KINE_SCHEMA_MIGRATION, its existence query being
\* answered, the second call executes no statement, leaves the schema objects as
\* they were and returns no error.
C7_SecondSetupNoOp ==
    \A k \in 2 .. Len(runs) :
        (/\ runs[k - 1].ranSetup
         /\ runs[k - 1].err = NilErr
         /\ runs[k].ranSetup
         /\ runs[k].checkErr \notin Faults)
            => /\ runs[k].executed = <<>>
               /\ runs[k].before = runs[k - 1].after
               /\ runs[k].after = runs[k].before
               /\ runs[k].err = NilErr
               /\ runs[k].backend

\* C7 witness: the first call created the table and the five indexes on an empty
\* backend, the second call found the table and executed nothing.
C7_Witness ==
    /\ Len(runs) = 2
    /\ runs[1].before = {}
    /\ Len(runs[1].executed) = Len(Schema)
    /\ runs[1].err = NilErr
    /\ runs[1].after = AllObjects
    /\ runs[2].ranSetup
    /\ runs[2].checkErr = NilErr
    /\ runs[2].executed = <<>>
    /\ runs[2].backend

\* C8, as the specification states it: TranslateErr maps the violation of the
\* unique index on (name, prev_revision) to ErrKeyExists and returns every other
\* error unchanged.
C8_OnlyNamePrevRevision ==
    IF classified.raw = OracleError(OraUnique, "KINE_NAME_PREV_REVISION_UINDEX")
    THEN classified.out = ErrKeyExists
    ELSE classified.out = classified.raw

\* C8, amended: TranslateErr maps every Oracle error with code 1 (ORA-00001,
\* raised for the unique index on (name, prev_revision) and for the primary key
\* alike) to ErrKeyExists and returns every other error value, nil included,
\* unchanged.
C8_CodeOneIsKeyExists ==
    IF classified.raw.kind = "OracleError" /\ classified.raw.code = 1
    THEN classified.out = ErrKeyExists
    ELSE classified.out = classified.raw

\* C8 witness: a primary-key violation has been classified as ErrKeyExists.
C8_Witness ==
    /\ classified.raw = OracleError(OraUnique, "KINE_PK")
    /\ classified.out = ErrKeyExists

\* what of the backend's error a caller can get out of the error it received
Cause(e) == IF e = ErrKeyExists THEN NilErr ELSE e

\* C9: for every backend error of a statement the driver executes or classifies,
\* the caller receives an error from which that backend error can be obtained:
\* an error handed to TranslateErr, an error of the existence query, of a schema
\* or migration statement, and of the migration step.
C9_RawCauseReachesCaller ==
    /\ classified.raw # NilErr => Cause(classified.out) = classified.raw
    /\ \A k \in DOMAIN runs :
           /\ runs[k].checkErr \in Faults => Cause(runs[k].err) = runs[k].checkErr
           /\ LastErr(runs[k].executed) # NilErr
                  => Cause(runs[k].err) = LastErr(runs[k].executed)
           /\ runs[k].migrateErr # NilErr => Cause(runs[k].err) = runs[k].migrateErr

\* C10, as the specification states it: a failure of any statement of setup, the
\* existence query included, aborts setup: no later statement is executed and New
\* returns that error and no backend.
C10_AnyFailureAborts ==
    /\ \A log \in ExecLogs : \A i \in 1 .. Len(log) - 1 : log[i].err = NilErr
    /\ \A k \in DOMAIN runs :
           /\ LastErr(runs[k].executed) # NilErr
                  => runs[k].err = LastErr(runs[k].executed) /\ ~runs[k].backend
           /\ runs[k].checkErr \in Faults
                  => /\ runs[k].executed = <<>>
                     /\ runs[k].err = runs[k].checkErr
                     /\ ~runs[k].backend

-----------------------------------------------------------------------------
(* Properties of the placeholder translator *)

\* the number of generic markers of a text
CountQ(sql) == Cardinality({i \in DOMAIN sql : sql[i] = "?"})

IsDigit(c) == \E d \in DOMAIN Digits : Digits[d] = c

\* the value of digit character c
DigitValue(c) == (CHOOSE d \in DOMAIN Digits : Digits[d] = c) - 1

RECURSIVE DigitRun(_)
\* how many digit characters a text starts with
DigitRun(s) == IF s # <<>> /\ IsDigit(Head(s)) THEN 1 + DigitRun(Tail(s)) ELSE 0

RECURSIVE Atoi(_, _)
\* the decimal value of the first k characters of s, read onto acc
Atoi(s, acc) == IF s = <<>> THEN acc ELSE Atoi(Tail(s), acc * 10 + DigitValue(Head(s)))

\* s starts with a backend marker: ':' and at least one digit
AtMarker(s) == Len(s) >= 2 /\ s[1] = ":" /\ IsDigit(s[2])

RECURSIVE Markers(_)
\* the numbers of the backend markers of a text, left to right
Markers(s) ==
    IF s = <<>> THEN <<>>
    ELSE IF AtMarker(s)
         THEN LET k == DigitRun(Tail(s))
              IN  <<Atoi(SubSeq(s, 2, k + 1), 0)>> \o Markers(SubSeq(s, k + 2, Len(s)))
    ELSE Markers(Tail(s))

RECURSIVE Unmark(_)
\* a text with every backend marker put back to the generic marker
Unmark(s) ==
    IF s = <<>> THEN <<>>
    ELSE IF AtMarker(s)
         THEN <<"?">> \o Unmark(SubSeq(s, DigitRun(Tail(s)) + 2, Len(s)))
    ELSE <<Head(s)>> \o Unmark(Tail(s))

\* C11: for a template with n generic markers, q's output has exactly n backend
\* markers, numbered 1..n from left to right, and no generic marker; putting the
\* generic marker back in place of each backend marker gives the template (all
\* other text is unchanged); q applied to its own output returns it unchanged.
\* This holds for the templates of New, which splice one list skeleton with
\* different predicates and nest it in the count queries.
C11_MarkersInOrder ==
    /\ Len(qout) >= 1 =>
           /\ Markers(qout[1]) = [k \in 1 .. CountQ(tmpl) |-> k]
           /\ CountQ(qout[1]) = 0
           /\ Unmark(qout[1]) = tmpl
           /\ qout[1] = Q(tmpl)
    /\ Len(qout) = 2 => qout[2] = qout[1]

\* C11 witness: the count query over the revision-bounded list, the list
\* skeleton nested in it, has been translated twice and carries :1 to :4.
C11_Witness ==
    /\ tmpl = CountRevisionText
    /\ Len(qout) = 2
    /\ Markers(qout[2]) = <<1, 2, 3, 4>>

\* the migration statements of an execution log: those that are not of schema
MigrationLog(log) == SelectSeq(log, LAMBDA e : e.stmt \notin AllObjects)

\* the number of list positions the loop passes before "if i >= int(schemaVersion)
\* { break }" ends it: none when int(schemaVersion) is 0 or negative
PositionsBelow(s) ==
    IF SchemaVersion(s) <= 0 THEN 0
    ELSE IF SchemaVersion(s) > Len(SchemaMigrations) THEN Len(SchemaMigrations)
    ELSE SchemaVersion(s)

\* the statements the loop hands to db.Exec for the value s: the non-empty
\* statements at the positions it passes, in list order
MigrationsDue(s) ==
    SelectSeq(SubSeq(SchemaMigrations, 1, PositionsBelow(s)), LAMBDA stmt : stmt # "")

\* the number of list positions below the desired version V as the configuration
\* states it, an unsigned integer: V is the value of KINE_SCHEMA_MIGRATION, and 0
\* when the value is absent or no uint64.  It differs from PositionsBelow for
\* the values from 2^63 to 2^64 - 1.
DesiredPositions(s) ==
    IF s = <<>> \/ ~AllDigits(s) \/ ~DecLeq(StripZeros(s), MaxUint64Text) THEN 0
    ELSE IF Len(StripZeros(s)) > ExactDigits THEN Len(SchemaMigrations)
    ELSE IF ParseDigits(StripZeros(s), 0) > Len(SchemaMigrations) THEN Len(SchemaMigrations)
    ELSE ParseDigits(StripZeros(s), 0)

\* the statement texts of an execution log
Stmts(log) == [i \in DOMAIN log |-> log[i].stmt]

\* C12: for every value of KINE_SCHEMA_MIGRATION, whether the table was just
\* created or was found, a call of setup that got past the schema statements has
\* executed exactly the non-empty migration statements at the list positions
\* below the desired version V, in list order, each once, and none when V is 0.
\* The loop itself passes the positions below int(V), and what it executes is
\* the non-empty statements among those.
C12_MigrationsBelowVersion ==
    /\ \A k \in DOMAIN runs :
           (runs[k].ranSetup /\ runs[k].err = NilErr) =>
               /\ Stmts(MigrationLog(runs[k].executed)) = MigrationsDue(env)
               /\ Stmts(MigrationLog(runs[k].executed))
                      = SelectSeq(SubSeq(SchemaMigrations, 1, DesiredPositions(env)),
                                  LAMBDA stmt : stmt # "")
    /\ npc \in {"migrate", "Migrate"} =>
           /\ \A i \in DOMAIN MigrationLog(executed) :
                  /\ MigrationLog(executed)[i].stmt # ""
                  /\ \E j \in 1 .. mi : SchemaMigrations[j] = MigrationLog(executed)[i].stmt
           /\ mi <= PositionsBelow(env)
    /\ npc = "Migrate" => mi = PositionsBelow(env)
    /\ DesiredPositions(env) = 0 =>
           \A log \in ExecLogs : MigrationLog(log) = <<>>

\* C12 witness: with KINE_SCHEMA_MIGRATION=2 the loop has passed both list
\* positions, once after creating the table and once after finding it.
C12_Witness ==
    /\ SchemaVersion(env) = 2
    /\ Len(runs) = 1
    /\ runs[1].err = NilErr
    /\ Len(runs[1].executed) = Len(Schema)
    /\ npc = "Migrate"
    /\ mi = Len(SchemaMigrations)
    /\ exists
    /\ executed = <<>>

-----------------------------------------------------------------------------
(* Properties of get-revision-after and of the count queries *)

\* the bind values of the name cursor: none (NULL) and the key names
Cursors == {<<>>} \cup Names

\* C13, as the specification states it: get-revision-after returns only records
\* whose name is greater than the cursor and whose id is greater than the floor.
C13_AboveFloor ==
    \A pat \in Patterns, cur \in Cursors, F \in 0 .. MaxId, del \in Dels :
        LET res == Rows(GetRevisionAfterSQL(table, pat, cur, F, del))
        IN  \A i \in DOMAIN res : StrLess(cur, res[i].name) /\ res[i].id > F

\* C13, amended: get-revision-after with cursor c and revision R returns, in
\* ascending name order, at most one row per name; a name has a row exactly when
\* it matches the pattern, is greater than c (c not NULL), has a row with
\* id <= R, and the newest of its rows with id <= R has deleted = 0 or the
\* requested deleted state; the row returned is that one.  R is a ceiling: no
\* row with id > R is returned.
C13_CursorAndCeiling ==
    \A pat \in Patterns, cur \in Cursors, R \in 0 .. MaxId, del \in Dels :
        LET res    == Rows(GetRevisionAfterSQL(table, pat, cur, R, del))
            upTo   == {r \in table : r.id <= R}
        IN  /\ \A i, j \in DOMAIN res : i < j => StrLess(res[i].name, res[j].name)
            /\ \A i \in DOMAIN res :
                   /\ res[i] \in upTo
                   /\ res[i].id = LatestId(upTo, res[i].name)
            /\ \A n \in NamesIn(table) :
                   (\E i \in DOMAIN res : res[i].name = n)
                       <=> /\ NameLike(n, pat)
                           /\ cur # <<>>
                           /\ StrLess(cur, n)
                           /\ \E r \in upTo : /\ r.name = n
                                              /\ r.id = LatestId(upTo, n)
                                              /\ (r.deleted = 0 \/ r.deleted = del)

\* C13 witness: a key above the cursor has a row above the revision and
\* get-revision-after returns its older row; the cursor's own key is left out.
C13_Witness ==
    \E R \in 1 .. MaxId :
        LET res == Rows(GetRevisionAfterSQL(table, <<Pct>>, <<1>>, R, 0))
        IN  /\ Len(res) = 1
            /\ res[1].id <= R
            /\ \E r \in table : r.name = res[1].name /\ r.id > R
            /\ \E r \in table : r.name = <<1>> /\ r.id <= R

\* C14: each count variant returns the current maximum id of the table and a
\* count equal to the number of rows its list counterpart returns for the same
\* pattern, deleted flag and bounds: CountCurrentSQL against GetCurrentSQL with
\* the same start cursor, CountRevisionSQL (no start cursor) with ceiling R
\* against ListRevisionStartSQL with ceiling R.
C14_CountsAgree ==
    \A pat \in Patterns, del \in Dels :
        /\ \A start \in Cursors :
               /\ CountCurrentSQL(table, pat, start, del).rev = RevSQL(table)
               /\ CountCurrentSQL(table, pat, start, del).count
                      = Len(GetCurrentSQL(table, pat, start, del))
        /\ \A R \in 0 .. MaxId :
               /\ CountRevisionSQL(table, pat, <<>>, R, del).rev = RevSQL(table)
               /\ CountRevisionSQL(table, pat, <<>>, R, del).count
                      = Len(ListRevisionStartSQL(table, pat, R, del))

-----------------------------------------------------------------------------
(* Properties of compaction *)

\* the sentinel rows of a table
Sentinels(t) == {r \in t : r.name = CompactRevKey}

\* the executed inserts of a sentinel row
SentinelInserts == {i \in DOMAIN insLog : insLog[i].name = CompactRevKey}

\* C15: of the attempts to insert a sentinel row with the same watermark W
\* exactly one succeeds and every other one ends with ErrKeyExists; no two
\* sentinel rows hold the same prev_revision; the compaction-revision lookup
\* returns the highest watermark written so far.
C15_WatermarkWrittenOnce ==
    /\ \A r1, r2 \in Sentinels(table) : r1.prev_revision = r2.prev_revision => r1 = r2
    /\ \A i \in SentinelInserts :
           /\ Cardinality({j \in SentinelInserts :
                               insLog[j].prev = insLog[i].prev /\ insLog[j].raw = NilErr}) = 1
           /\ insLog[i].raw # NilErr => insLog[i].out = ErrKeyExists
    /\ CompactRevSQL(table)
           = MaxOf({insLog[i].prev : i \in {j \in SentinelInserts : insLog[j].raw = NilErr}})

\* C15 witness: two callers read the same watermark and both tried to write W;
\* one sentinel row was inserted, the other caller got ErrKeyExists, and the
\* lookup returns W.
C15_Witness ==
    \E i, j \in SentinelInserts :
        /\ i < j
        /\ insLog[i].prev = insLog[j].prev
        /\ insLog[i].raw = NilErr
        /\ insLog[j].out = ErrKeyExists
        /\ CompactRevSQL(table) = insLog[i].prev

\* a record has been written
Written == \E i \in DOMAIN insLog : insLog[i].raw = NilErr

\* C18: over puts, tombstone deletes, watermark advances and sweeps, the value
\* of the revision lookup, MAX(id) over the whole table, never decreases from a
\* state to the next, and it is not NULL once a record has been written; the
\* first column of every list, count and poll result is that value.
C18_RevisionNeverBackwards ==
    /\ [][RevSQL(table') >= RevSQL(table)]_vars
    /\ [](Written => RevSQL(table) # Null)
    /\ [](\A pat \in Patterns, del \in Dels :
             /\ \A i \in DOMAIN GetCurrentSQL(table, pat, <<>>, del) :
                    GetCurrentSQL(table, pat, <<>>, del)[i].rev = RevSQL(table)
             /\ \A i \in DOMAIN AfterSQL(table, pat, 0) :
                    AfterSQL(table, pat, 0)[i].rev = RevSQL(table)
             /\ CountCurrentSQL(table, pat, <<>>, del).rev = RevSQL(table))

\* C18 witness: the sweep has removed a superseded record below the watermark
\* and the revision lookup still returns the id of the last write.
C18_Witness ==
    /\ \E i \in DOMAIN insLog :
           /\ insLog[i].raw = NilErr
           /\ insLog[i].name # CompactRevKey
           /\ \A r \in table : r.id # insLog[i].id
    /\ Sentinels(table) # {}
    /\ RevSQL(table) = nextId - 1

\* C20: in a state that holds a sentinel row, no list or poll query returns a
\* sentinel row and no count query counts one, for any name pattern.
C20_SentinelHidden ==
    \A pat \in Patterns, del \in Dels :
        LET keys == table \ Sentinels(table)
            Hidden(res) == \A i \in DOMAIN res : res[i].kv.name # CompactRevKey
        IN  /\ Hidden(GetCurrentSQL(table, pat, <<>>, del))
            /\ Hidden(AfterSQL(table, pat, 0))
            /\ \A R \in 0 .. MaxId :
                   /\ Hidden(ListRevisionStartSQL(table, pat, R, del))
                   /\ Hidden(GetRevisionAfterSQL(table, pat, Chr1, R, del))
                   /\ CountRevisionSQL(table, pat, <<>>, R, del).count
                          = CountRevisionSQL(keys, pat, <<>>, R, del).count
            /\ CountCurrentSQL(table, pat, <<>>, del).count
                   = CountCurrentSQL(keys, pat, <<>>, del).count

-----------------------------------------------------------------------------
(* Properties of a sequence of puts *)

\* the rows of one name, oldest first
Versions(t, name) == OrderById({[kv |-> r] : r \in History(t, name)})

\* C16: on a table that was empty, the first put gets id 1, create_revision 1 and
\* prev_revision 0, and a second put of the same key gets id 2 and
\* prev_revision 1; after n >= 2 puts to one key, the current-state list over
\* any pattern that matches the key returns exactly one row for it: the n-th
\* record, whose value is the n-th put's payload and whose old_value is the
\* value of the (n-1)-th record.
C16_PutTwiceListed ==
    /\ \A r \in table : r.id = 1 => r.create_revision = 1 /\ r.prev_revision = 0
    /\ \A r \in table :
           (r.id = 2 /\ \E x \in table : x.id = 1 /\ x.name = r.name) => r.prev_revision = 1
    /\ \A name \in NamesIn(table), pat \in Patterns :
           LET v   == Versions(table, name)
               n   == Len(v)
               res == Rows(GetCurrentSQL(table, pat, <<>>, 0))
               hit == {i \in DOMAIN res : res[i].name = name}
           IN  (n >= 2 /\ NameLike(name, pat)) =>
                   /\ Cardinality(hit) = 1
                   /\ \A i \in hit : /\ res[i] = v[n].kv
                                     /\ res[i].prev_revision = v[n - 1].kv.id
                                     /\ res[i].old_value = v[n - 1].kv.value

-----------------------------------------------------------------------------
(* Properties of the poll loop beside open transactions *)

\* the ids the polls so far have returned
Polled == UNION {{polls[k].ids[i] : i \in DOMAIN polls[k].ids} : k \in DOMAIN polls}

\* C17: no committed record is missed by the poll loop: a committed row that
\* matches the poll pattern and whose id is at or below the loop's floor has been
\* returned by a poll, so no row becomes visible below the floor after the floor
\* has passed it; and no row is returned twice.
C17_NoCommittedRowMissed ==
    /\ \A r \in table :
           (NameLike(r.name, PollPattern) /\ r.id <= PollFloor) => r.id \in Polled
    /\ \A k, h \in DOMAIN polls :
           \A i \in DOMAIN polls[k].ids, j \in DOMAIN polls[h].ids :
               polls[k].ids[i] = polls[h].ids[j] => (k = h /\ i = j)

-----------------------------------------------------------------------------
(* Properties of forward pagination *)

\* a is an initial part of b
IsPrefix(a, b) == Len(a) <= Len(b) /\ a = SubSeq(b, 1, Len(a))

\* C19: at a fixed ceiling R, pattern and deleted flag, the pages (the
\* revision-bounded list capped to n rows, then get-revision-after with the
\* cursor at the last name returned and the same cap, until a page has fewer
\* than n rows) put together are, in ascending name order and each row once,
\* the rows of the uncapped revision-bounded list with ceiling R, for every cap
\* n >= 1, also when records with id > R are written between the pages.
C19_PagesCoverList ==
    LET all == Rows(ListRevisionStartSQL(table, page.pat, page.R, page.del))
    IN  page.state # "idle" =>
            /\ IsPrefix(page.rows, all)
            /\ \A i, j \in DOMAIN page.rows :
                   i < j => StrLess(page.rows[i].name, page.rows[j].name)
            /\ page.state = "done" => page.rows = all

\* C19 witness: a list of two rows was read in three pages of cap 1, the last
\* one empty, while a record above the ceiling was written after the first page.
C19_Witness ==
    /\ page.state = "done"
    /\ page.n = 1
    /\ page.pages = 3
    /\ Len(page.rows) = 2
    /\ page.rev < RevSQL(table)

====
